---- MODULE Spec2Model ----
(***************************************************************************)
(* The training run of examples/unconditional_image_generation/            *)
(* train_unconditional.py, main(args): resume from a checkpoint, the       *)
(* epoch / batch loop with gradient accumulation, the EMA tracker, the     *)
(* step-cadence checkpoints and the epoch-cadence sampling and snapshot,   *)
(* for num_processes data-parallel workers that each execute main(args).   *)
(*                                                                         *)
(* Network weights are abstracted to a version number: params = n is the   *)
(* weight vector after n optimizer updates.  The EMA decay is abstracted   *)
(* to 1/2 with integer rounding.                                           *)
(***************************************************************************)
EXTENDS Integers, FiniteSets, Sequences, TLC

\* ------------------------------------------------------------------ bounds
MaxBatches == 3      \* len(train_dataloader) ranges over 1..MaxBatches
MaxAccum == 2        \* gradient_accumulation_steps ranges over 1..MaxAccum
MaxEpochs == 3       \* num_epochs ranges over 1..MaxEpochs
MaxCkptSteps == 2    \* checkpointing_steps ranges over 1..MaxCkptSteps
MaxCkptId == 2       \* checkpoint-<n> directories of an earlier run, n in 1..MaxCkptId
MaxLimit == 2        \* checkpoints_total_limit ranges over 1..MaxLimit
MaxWorkers == 2      \* num_processes of the data-parallel specification
MaxWeight == 3       \* weight values of the store/copy_to/restore round trip, 0..MaxWeight

\* Python's None
None == -1

VARIABLES
    args,                    \* the parsed command line (never changed)
    len_train_dataloader,    \* len(train_dataloader): batches per epoch on each worker
    num_processes,           \* accelerator.num_processes
    pc,                      \* pc[w]: where worker w is in main(args)
    resume_from_checkpoint,  \* worker w's args.resume_from_checkpoint (line 655 resets it)
    global_step,
    resume_global_step,      \* global_step * gradient_accumulation_steps at resume
    first_epoch,
    resume_step,
    epoch,
    step,                    \* number of batches enumerate(train_dataloader) has yielded
    acc_step,                \* accelerator.step
    sync_gradients,          \* accelerator.sync_gradients
    grads,                   \* micro-batch gradients accumulated since the last zero_grad
    params,                  \* the live network weights (version number)
    shadow_params,           \* ema_model.shadow_params
    optimization_step,       \* ema_model.optimization_step
    temp_stored_params,      \* ema_model.temp_stored_params
    coll,                    \* number of collective operations worker w has entered
    output_dir,              \* checkpoint-<n> directories: n |-> saved state
    save_path,               \* suffix of the last save_path given to save_state
    images,                  \* epochs whose sample images were generated
    snapshot,                \* weights held by the snapshot of save_pretrained
    test_samples,            \* epochs whose images the tracker logged as "test_samples"
    hub                      \* epochs published with push_to_hub

vars == <<args, len_train_dataloader, num_processes, pc, resume_from_checkpoint,
          global_step, resume_global_step, first_epoch, resume_step, epoch, step,
          acc_step, sync_gradients, grads, params, shadow_params, optimization_step,
          temp_stored_params, coll, output_dir, save_path, images, snapshot,
          test_samples, hub>>

Workers == 0 .. (num_processes - 1)

\* ------------------------------------------------------- pure computations

\* math.ceil(len(train_dataloader) / args.gradient_accumulation_steps)
NumUpdateStepsPerEpoch(B, A) == (B + A - 1) \div A

FirstEpoch_scaled(G, B, A) == (G * A) \div NumUpdateStepsPerEpoch(B, A)

\* first_epoch = global_step // num_update_steps_per_epoch
FirstEpoch(G, B, A) == G \div NumUpdateStepsPerEpoch(B, A)

ResumeStep_unscaled(G, B, A) == (G * A) % NumUpdateStepsPerEpoch(B, A)

\* resume_global_step % (num_update_steps_per_epoch * gradient_accumulation_steps)
ResumeStep(G, B, A) == (G * A) % (NumUpdateStepsPerEpoch(B, A) * A)

Max(S) == CHOOSE x \in S : \A y \in S : y <= x

RECURSIVE Digits(_)
\* str(n): the decimal digits of n, most significant first
Digits(n) == IF n < 10 THEN <<n>> ELSE Append(Digits(n \div 10), n % 10)

\* f"checkpoint-{global_step}": a directory name, given by the digits after "-"
DirName(n) == Digits(n)

RECURSIVE IntSuffix(_)
\* int(x.split("-")[1])
IntSuffix(name) ==
    IF name = <<>> THEN 0
    ELSE 10 * IntSuffix(SubSeq(name, 1, Len(name) - 1)) + name[Len(name)]

\* the order of Python's str on names with the same "checkpoint-" prefix
StrLeq(a, b) ==
    \/ Len(a) <= Len(b) /\ \A i \in 1 .. Len(a) : a[i] = b[i]
    \/ \E i \in 1 .. Len(a) :
           /\ i <= Len(b) /\ a[i] < b[i]
           /\ \A j \in 1 .. (i - 1) : a[j] = b[j]

\* os.listdir(args.output_dir), the names that start with "checkpoint"
ListDir(ids) == {DirName(n) : n \in ids}

LatestCheckpoint_by_name(ids) ==
    LET dirs == ListDir(ids)
    IN  IF dirs = {} THEN None
        ELSE IntSuffix(CHOOSE d \in dirs : \A e \in dirs : StrLeq(e, d))

\* sorted(dirs, key=int suffix)[-1] if len(dirs) > 0 else None; the result is
\* given by the integer line 659 reads from the name
LatestCheckpoint(ids) ==
    LET dirs == ListDir(ids)
    IN  IF dirs = {} THEN None
        ELSE IntSuffix(CHOOSE d \in dirs : \A e \in dirs : IntSuffix(e) <= IntSuffix(d))

DoSync_end_only(s, end, A) ==
    [step |-> IF end THEN 0 ELSE s + 1, sync |-> end]

DoSync_every(s, end, A) ==
    [step |-> s + 1, sync |-> ((s + 1) % A = 0)]

\* accelerator.accumulate(model): Accelerator._do_sync counts the micro-steps in
\* accelerator.step; it synchronises every gradient_accumulation_steps of them
\* and on the last batch of the prepared dataloader, where it resets the count
DoSync(s, end, A) ==
    IF end THEN [step |-> 0, sync |-> TRUE]
           ELSE [step |-> s + 1, sync |-> ((s + 1) % A = 0)]

\* shadow = decay * shadow + (1 - decay) * current, decay abstracted to 1/2
ShadowUpdate(shadow, current) == (shadow + current) \div 2

\* ema_model.step(model.parameters())
EmaStep(ema, current) ==
    [shadow |-> ShadowUpdate(ema.shadow, current),
     optimization_step |-> ema.optimization_step + 1]

EmaDue_every(use_ema, sync) == use_ema

\* lines 723-725: if accelerator.sync_gradients: if args.use_ema: ema_model.step
EmaDue(use_ema, sync) == sync /\ use_ema

EmaStore_zeros(current) == 0

\* ema_model.store(unet.parameters())
EmaStore(current) == current

\* ema_model.copy_to(unet.parameters())
EmaCopyTo(shadow) == shadow

EmaRestore_missing(temp, current) ==
    [params |-> current, temp_stored_params |-> temp]

\* ema_model.restore(unet.parameters())
EmaRestore(temp, current) ==
    [params |-> temp, temp_stored_params |-> None]

RECURSIVE ShadowAfter(_)
\* the shadow after n optimizer updates of a run that started from weights 0
ShadowAfter(n) == IF n = 0 THEN 0 ELSE ShadowUpdate(ShadowAfter(n - 1), n)

\* what save_model_hook and save_state put in a checkpoint directory
CheckpointContent(p, shadow, ostep) ==
    [unet |-> p, shadow |-> shadow, optimization_step |-> ostep]

\* the checkpoint-<n> an earlier run with the same configuration left behind
EarlierCheckpoint(n, use_ema) ==
    IF use_ema THEN CheckpointContent(n, ShadowAfter(n), n)
               ELSE CheckpointContent(n, None, None)

\* ProjectConfiguration(total_limit=...) leaves automatic_checkpoint_naming at
\* its default; save_state applies total_limit only under automatic naming.
automatic_checkpoint_naming == FALSE

\* accelerator.save_state(save_path): the directories afterwards
SaveState(dirs, n, content, limit) ==
    LET ids == DOMAIN dirs
        excess == IF automatic_checkpoint_naming /\ limit # None
                     /\ Cardinality(ids) + 1 > limit
                  THEN Cardinality(ids) + 1 - limit ELSE 0
        kept == {i \in ids : Cardinality({j \in ids : j < i}) >= excess}
    IN [i \in kept \cup {n} |-> IF i = n THEN content ELSE dirs[i]]

CheckpointDue_off(g, cs) == (g + 1) % cs = 0

\* global_step % args.checkpointing_steps == 0
CheckpointDue(g, cs) == g % cs = 0

IsMainProcess_all(w) == TRUE

\* accelerator.is_main_process
IsMainProcess(w) == w = 0

SampleDue_cadence_only(e) == e % args.save_images_epochs = 0

\* epoch % args.save_images_epochs == 0 or epoch == args.num_epochs - 1
SampleDue(e) == e % args.save_images_epochs = 0 \/ e = args.num_epochs - 1

\* epoch % args.save_model_epochs == 0 or epoch == args.num_epochs - 1
SnapshotDue(e) == e % args.save_model_epochs = 0 \/ e = args.num_epochs - 1

AllArrived_nowait(w) == TRUE

\* a collective (gradient all-reduce, wait_for_everyone) completes for w once
\* every worker has entered it
AllArrived(w) == \A v \in Workers : coll[v] >= coll[w]

\* ---------------------------------------------------------------- requests
NoResume == [kind |-> "none", n |-> 0]
Latest == [kind |-> "latest", n |-> 0]
ExplicitPath(n) == [kind |-> "path", n |-> n]


\* ------------------------------------------------------------------- Init
\* the state of every worker when main(args) reaches line 637
InitOver(Batches, Accums, Epochs, CkptSteps, Limits, Emas, ImgEp, ModelEp, Pushes, Reqs, Earlier, Procs) ==
    /\ args \in [gradient_accumulation_steps : Accums,
                 num_epochs : Epochs,
                 checkpointing_steps : CkptSteps,
                 checkpoints_total_limit : Limits,
                 use_ema : Emas,
                 save_images_epochs : ImgEp,
                 save_model_epochs : ModelEp,
                 push_to_hub : Pushes,
                 resume_from_checkpoint : Reqs]
    /\ len_train_dataloader \in Batches
    /\ num_processes \in Procs
    /\ \E ids \in Earlier :
          output_dir = [n \in ids |-> EarlierCheckpoint(n, args.use_ema)]
    /\ pc = [w \in Workers |-> "start"]
    /\ resume_from_checkpoint = [w \in Workers |-> args.resume_from_checkpoint]
    /\ global_step = [w \in Workers |-> 0]
    /\ resume_global_step = [w \in Workers |-> None]
    /\ first_epoch = [w \in Workers |-> 0]
    /\ resume_step = [w \in Workers |-> None]
    /\ epoch = [w \in Workers |-> 0]
    /\ step = [w \in Workers |-> 0]
    /\ acc_step = [w \in Workers |-> 0]
    /\ sync_gradients = [w \in Workers |-> TRUE]
    /\ grads = [w \in Workers |-> 0]
    /\ params = [w \in Workers |-> 0]
    /\ shadow_params = [w \in Workers |-> IF args.use_ema THEN 0 ELSE None]
    /\ optimization_step = [w \in Workers |-> IF args.use_ema THEN 0 ELSE None]
    /\ temp_stored_params = [w \in Workers |-> None]
    /\ coll = [w \in Workers |-> 0]
    /\ save_path = None
    /\ images = {}
    /\ snapshot = None
    /\ test_samples = {}
    /\ hub = {}

Requests == {NoResume, Latest} \cup {ExplicitPath(n) : n \in 1 .. MaxCkptId}

\* epoch cadences of sampling and of the snapshot
Cadences == {1, 2}

\* checkpoint-9 and checkpoint-10: the order of the names is not that of the numbers
NineAndTen == {9, 10}

\* one process; every loop, checkpoint and resume parameter
Init ==
    InitOver(1 .. MaxBatches, 1 .. MaxAccum, 1 .. MaxEpochs, 1 .. MaxCkptSteps,
             1 .. MaxLimit, BOOLEAN, Cadences, Cadences, {FALSE},
             Requests, SUBSET (1 .. MaxCkptId) \cup {NineAndTen}, {1})

\* data-parallel workers on short epochs, fresh or resumed from "latest"
InitWorkers ==
    InitOver({1, 2}, 1 .. MaxAccum, {1, 2}, {1, 2},
             {1}, BOOLEAN, {1}, {1}, BOOLEAN,
             {NoResume, Latest}, {{}, {1}}, {MaxWorkers})

\* ---------------------------------------------------------------- actions
cfg_unchanged == UNCHANGED <<args, len_train_dataloader, num_processes>>
ema_unchanged == UNCHANGED <<shadow_params, optimization_step, temp_stored_params>>
files_unchanged == UNCHANGED <<output_dir, save_path, images, snapshot, test_samples, hub>>
loop_unchanged == UNCHANGED <<global_step, resume_global_step, first_epoch,
                              resume_step, epoch, step,
                              acc_step, sync_gradients, grads>>

LoopPc_inclusive(e) == IF e <= args.num_epochs THEN "train" ELSE "end"

\* for epoch in range(first_epoch, args.num_epochs): where the loop goes for epoch e
LoopPc(e) == IF e < args.num_epochs THEN "train" ELSE "end"

\* lines 637-663: global_step, first_epoch and the checkpoint to resume from
Resume(w) ==
    /\ pc[w] = "start"
    /\ LET req == resume_from_checkpoint[w]
           A == args.gradient_accumulation_steps
           B == len_train_dataloader
           path == IF req.kind = "path" THEN IntSuffix(DirName(req.n))
                   ELSE LatestCheckpoint(DOMAIN output_dir)
       IN  IF req.kind = "none" \/ path = None
           THEN \* fresh run, or no checkpoint under "latest"
                /\ resume_from_checkpoint' = [resume_from_checkpoint EXCEPT ![w] = NoResume]
                /\ global_step' = [global_step EXCEPT ![w] = 0]
                /\ first_epoch' = [first_epoch EXCEPT ![w] = 0]
                /\ epoch' = [epoch EXCEPT ![w] = 0]
                /\ pc' = [pc EXCEPT ![w] = LoopPc(0)]
                /\ UNCHANGED <<resume_global_step, resume_step, params, shadow_params,
                               optimization_step>>
           ELSE IF path \notin DOMAIN output_dir
           THEN \* accelerator.load_state raises: the folder does not exist
                /\ pc' = [pc EXCEPT ![w] = "raised_load_state"]
                /\ UNCHANGED <<resume_from_checkpoint, global_step, resume_global_step,
                               first_epoch, epoch, resume_step, params, shadow_params,
                               optimization_step>>
           ELSE /\ params' = [params EXCEPT ![w] = output_dir[path].unet]
                /\ shadow_params' = [shadow_params EXCEPT ![w] =
                       IF args.use_ema THEN output_dir[path].shadow ELSE @]
                /\ optimization_step' = [optimization_step EXCEPT ![w] =
                       IF args.use_ema THEN output_dir[path].optimization_step ELSE @]
                /\ global_step' = [global_step EXCEPT ![w] = path]
                /\ resume_global_step' = [resume_global_step EXCEPT ![w] = path * A]
                /\ first_epoch' = [first_epoch EXCEPT ![w] = FirstEpoch(path, B, A)]
                /\ resume_step' = [resume_step EXCEPT ![w] = ResumeStep(path, B, A)]
                /\ epoch' = [epoch EXCEPT ![w] = FirstEpoch(path, B, A)]
                /\ pc' = [pc EXCEPT ![w] = LoopPc(FirstEpoch(path, B, A))]
                /\ UNCHANGED resume_from_checkpoint
    /\ UNCHANGED <<step, acc_step, sync_gradients, grads, temp_stored_params, coll>>
    /\ cfg_unchanged /\ files_unchanged

Skipping_every_epoch(w) ==
    /\ resume_from_checkpoint[w].kind # "none"
    /\ step[w] < resume_step[w]

\* line 674: the batch is one the checkpoint had already consumed
Skipping(w) ==
    /\ resume_from_checkpoint[w].kind # "none"
    /\ epoch[w] = first_epoch[w]
    /\ step[w] < resume_step[w]

\* lines 672-677: a batch of the resumed epoch is fetched and skipped
SkipBatch(w) ==
    /\ pc[w] = "train"
    /\ step[w] < len_train_dataloader
    /\ Skipping(w)
    /\ step' = [step EXCEPT ![w] = @ + 1]
    /\ UNCHANGED <<pc, resume_from_checkpoint, global_step, resume_global_step,
                   first_epoch, resume_step, epoch, acc_step, sync_gradients, grads,
                   params, coll>>
    /\ cfg_unchanged /\ ema_unchanged /\ files_unchanged

\* lines 679-739: one micro-step, forward and backward under accumulate(model).
\* On a synchronising micro-step backward enters the gradient all-reduce and
\* OptimizerStep continues the iteration; otherwise lines 723-733 are passed over
\* and the iteration goes on to the log call of line 739.
MicroStep(w) ==
    /\ pc[w] = "train"
    /\ step[w] < len_train_dataloader
    /\ ~Skipping(w)
    /\ LET ds == DoSync(acc_step[w], step[w] = len_train_dataloader - 1,
                        args.gradient_accumulation_steps)
       IN  /\ acc_step' = [acc_step EXCEPT ![w] = ds.step]
           /\ sync_gradients' = [sync_gradients EXCEPT ![w] = ds.sync]
           /\ pc' = [pc EXCEPT ![w] = IF ds.sync THEN "allreduce" ELSE "log"]
           /\ coll' = [coll EXCEPT ![w] = IF ds.sync THEN @ + 1 ELSE @]
           /\ IF ~ds.sync /\ EmaDue(args.use_ema, ds.sync)
              THEN LET ema == EmaStep([shadow |-> shadow_params[w],
                                       optimization_step |-> optimization_step[w]],
                                      params[w])
                   IN  /\ shadow_params' = [shadow_params EXCEPT ![w] = ema.shadow]
                       /\ optimization_step' =
                              [optimization_step EXCEPT ![w] = ema.optimization_step]
              ELSE UNCHANGED <<shadow_params, optimization_step>>
    /\ grads' = [grads EXCEPT ![w] = @ + 1]
    /\ step' = [step EXCEPT ![w] = @ + 1]
    /\ UNCHANGED <<resume_from_checkpoint, global_step, resume_global_step, first_epoch,
                   resume_step, epoch, params, temp_stored_params>>
    /\ cfg_unchanged /\ files_unchanged

\* lines 716-729: the optimization step that ends a synchronising micro-step
OptimizerStep(w) ==
    /\ pc[w] = "allreduce"
    /\ AllArrived(w)
    /\ params' = [params EXCEPT ![w] = @ + 1]
    /\ grads' = [grads EXCEPT ![w] = 0]
    /\ LET ema == EmaStep([shadow |-> shadow_params[w],
                           optimization_step |-> optimization_step[w]], params[w] + 1)
       IN  /\ shadow_params' = [shadow_params EXCEPT ![w] =
                  IF EmaDue(args.use_ema, sync_gradients[w]) THEN ema.shadow ELSE @]
           /\ optimization_step' = [optimization_step EXCEPT ![w] =
                  IF EmaDue(args.use_ema, sync_gradients[w])
                  THEN ema.optimization_step ELSE @]
    /\ global_step' = [global_step EXCEPT ![w] = @ + 1]
    /\ pc' = [pc EXCEPT ![w] =
          IF CheckpointDue(global_step[w] + 1, args.checkpointing_steps)
             /\ IsMainProcess(w)
          THEN "save_state" ELSE "log"]
    /\ UNCHANGED <<resume_from_checkpoint, resume_global_step, first_epoch, resume_step,
                   epoch, step, acc_step, sync_gradients, temp_stored_params, coll>>
    /\ cfg_unchanged /\ files_unchanged

\* lines 731-733: accelerator.save_state(checkpoint-<global_step>)
SaveCheckpoint(w) ==
    /\ pc[w] = "save_state"
    /\ output_dir' = SaveState(output_dir, global_step[w],
                               CheckpointContent(params[w], shadow_params[w],
                                                 optimization_step[w]),
                               args.checkpoints_total_limit)
    /\ save_path' = global_step[w]
    /\ pc' = [pc EXCEPT ![w] = "log"]
    /\ UNCHANGED <<resume_from_checkpoint, params, coll, images, snapshot,
                   test_samples, hub>>
    /\ cfg_unchanged /\ ema_unchanged /\ loop_unchanged

\* lines 735-739: accelerator.log(logs, step=global_step) returns; the iteration
\* of the batch loop ends
Log(w) ==
    /\ pc[w] = "log"
    /\ pc' = [pc EXCEPT ![w] = "train"]
    /\ UNCHANGED <<resume_from_checkpoint, params, coll>>
    /\ cfg_unchanged /\ ema_unchanged /\ files_unchanged /\ loop_unchanged

\* line 739: the tracker, which only the main process holds, raises in
\* accelerator.log; nothing in main catches it
LogRaises(w) ==
    /\ pc[w] = "log"
    /\ IsMainProcess(w)
    /\ pc' = [pc EXCEPT ![w] = "raised_log"]
    /\ UNCHANGED <<resume_from_checkpoint, params, coll>>
    /\ cfg_unchanged /\ ema_unchanged /\ files_unchanged /\ loop_unchanged

\* lines 672, 740-743: the dataloader is exhausted; wait_for_everyone is entered
EndOfDataloader(w) ==
    /\ pc[w] = "train"
    /\ step[w] = len_train_dataloader
    /\ pc' = [pc EXCEPT ![w] = "wait_743"]
    /\ coll' = [coll EXCEPT ![w] = @ + 1]
    /\ UNCHANGED <<resume_from_checkpoint, params>>
    /\ cfg_unchanged /\ ema_unchanged /\ files_unchanged /\ loop_unchanged

\* lines 743-794: the barrier completes, the evaluation pass runs, the second
\* wait_for_everyone is entered
Evaluate(w) ==
    /\ pc[w] = "wait_743"
    /\ AllArrived(w)
    /\ pc' = [pc EXCEPT ![w] = "wait_794"]
    /\ coll' = [coll EXCEPT ![w] = @ + 1]
    /\ UNCHANGED <<resume_from_checkpoint, params>>
    /\ cfg_unchanged /\ ema_unchanged /\ files_unchanged /\ loop_unchanged

\* the for statement of line 667 takes worker w to the next epoch
NextEpoch(w) ==
    /\ epoch' = [epoch EXCEPT ![w] = @ + 1]
    /\ step' = [step EXCEPT ![w] = 0]
    /\ pc' = [pc EXCEPT ![w] = LoopPc(epoch[w] + 1)]
    /\ UNCHANGED <<global_step, resume_global_step, first_epoch, resume_step, acc_step,
                   sync_gradients, grads>>

\* lines 794-797: the barrier completes; only the main process samples and saves
AfterBarrier(w) ==
    /\ pc[w] = "wait_794"
    /\ AllArrived(w)
    /\ IF IsMainProcess(w)
       THEN pc' = [pc EXCEPT ![w] = "sample"] /\ loop_unchanged
       ELSE NextEpoch(w)
    /\ UNCHANGED <<resume_from_checkpoint, params, coll>>
    /\ cfg_unchanged /\ ema_unchanged /\ files_unchanged

\* lines 798-803: sampling is due or not; with EMA the live weights are stored
SampleStore(w) ==
    /\ pc[w] = "sample"
    /\ IF ~SampleDue(epoch[w])
       THEN pc' = [pc EXCEPT ![w] = "snapshot"] /\ UNCHANGED temp_stored_params
       ELSE IF args.use_ema
       THEN /\ temp_stored_params' = [temp_stored_params EXCEPT ![w] = EmaStore(params[w])]
            /\ pc' = [pc EXCEPT ![w] = "sample_copy_to"]
       ELSE pc' = [pc EXCEPT ![w] = "sample_pipeline"] /\ UNCHANGED temp_stored_params
    /\ UNCHANGED <<resume_from_checkpoint, params, coll, shadow_params, optimization_step>>
    /\ cfg_unchanged /\ files_unchanged /\ loop_unchanged

\* line 803: ema_model.copy_to(unet.parameters())
SampleCopyTo(w) ==
    /\ pc[w] = "sample_copy_to"
    /\ params' = [params EXCEPT ![w] = EmaCopyTo(shadow_params[w])]
    /\ pc' = [pc EXCEPT ![w] = "sample_pipeline"]
    /\ UNCHANGED <<resume_from_checkpoint, coll>>
    /\ cfg_unchanged /\ ema_unchanged /\ files_unchanged /\ loop_unchanged

\* lines 805-817: the reverse sampling process returns the images
SamplePipeline(w) ==
    /\ pc[w] = "sample_pipeline"
    /\ images' = images \cup {epoch[w]}
    /\ pc' = [pc EXCEPT ![w] = IF args.use_ema THEN "sample_restore" ELSE "add_images"]
    /\ UNCHANGED <<resume_from_checkpoint, params, coll, output_dir, save_path,
                   snapshot, test_samples, hub>>
    /\ cfg_unchanged /\ ema_unchanged /\ loop_unchanged

\* lines 805-817: the reverse sampling process raises; nothing in main catches it
SamplePipelineRaises(w) ==
    /\ pc[w] = "sample_pipeline"
    /\ pc' = [pc EXCEPT ![w] = "raised_pipeline"]
    /\ UNCHANGED <<resume_from_checkpoint, params, coll>>
    /\ cfg_unchanged /\ ema_unchanged /\ files_unchanged /\ loop_unchanged

\* lines 819-820: ema_model.restore(unet.parameters())
SampleRestore(w) ==
    /\ pc[w] = "sample_restore"
    /\ LET r == EmaRestore(temp_stored_params[w], params[w])
       IN  /\ params' = [params EXCEPT ![w] = r.params]
           /\ temp_stored_params' = [temp_stored_params EXCEPT ![w] = r.temp_stored_params]
    /\ pc' = [pc EXCEPT ![w] = "add_images"]
    /\ UNCHANGED <<resume_from_checkpoint, coll, shadow_params, optimization_step>>
    /\ cfg_unchanged /\ files_unchanged /\ loop_unchanged

\* lines 822-836: the tracker logs the images as "test_samples"
AddImages(w) ==
    /\ pc[w] = "add_images"
    /\ test_samples' = test_samples \cup {epoch[w]}
    /\ pc' = [pc EXCEPT ![w] = "snapshot"]
    /\ UNCHANGED <<resume_from_checkpoint, params, coll, output_dir, save_path,
                   images, snapshot, hub>>
    /\ cfg_unchanged /\ ema_unchanged /\ loop_unchanged

\* lines 822-836: the tracker raises; nothing in main catches it
AddImagesRaises(w) ==
    /\ pc[w] = "add_images"
    /\ pc' = [pc EXCEPT ![w] = "raised_add_images"]
    /\ UNCHANGED <<resume_from_checkpoint, params, coll>>
    /\ cfg_unchanged /\ ema_unchanged /\ files_unchanged /\ loop_unchanged

\* lines 838-844: the snapshot is due or not; with EMA the live weights are stored
SnapshotStore(w) ==
    /\ pc[w] = "snapshot"
    /\ IF ~SnapshotDue(epoch[w])
       THEN NextEpoch(w) /\ UNCHANGED temp_stored_params
       ELSE /\ IF args.use_ema
               THEN /\ temp_stored_params' =
                          [temp_stored_params EXCEPT ![w] = EmaStore(params[w])]
                    /\ pc' = [pc EXCEPT ![w] = "snapshot_copy_to"]
               ELSE pc' = [pc EXCEPT ![w] = "save_pretrained"]
                    /\ UNCHANGED temp_stored_params
            /\ loop_unchanged
    /\ UNCHANGED <<resume_from_checkpoint, params, coll, shadow_params, optimization_step>>
    /\ cfg_unchanged /\ files_unchanged

\* line 844: ema_model.copy_to(unet.parameters())
SnapshotCopyTo(w) ==
    /\ pc[w] = "snapshot_copy_to"
    /\ params' = [params EXCEPT ![w] = EmaCopyTo(shadow_params[w])]
    /\ pc' = [pc EXCEPT ![w] = "save_pretrained"]
    /\ UNCHANGED <<resume_from_checkpoint, coll>>
    /\ cfg_unchanged /\ ema_unchanged /\ files_unchanged /\ loop_unchanged

\* lines 846-851: pipeline.save_pretrained(args.output_dir) writes the weights
SavePretrained(w) ==
    /\ pc[w] = "save_pretrained"
    /\ snapshot' = params[w]
    /\ pc' = [pc EXCEPT ![w] = IF args.use_ema THEN "snapshot_restore" ELSE "push_to_hub"]
    /\ UNCHANGED <<resume_from_checkpoint, params, coll, output_dir, save_path,
                   images, test_samples, hub>>
    /\ cfg_unchanged /\ ema_unchanged /\ loop_unchanged

\* lines 846-851: save_pretrained raises; nothing in main catches it
SavePretrainedRaises(w) ==
    /\ pc[w] = "save_pretrained"
    /\ pc' = [pc EXCEPT ![w] = "raised_save_pretrained"]
    /\ UNCHANGED <<resume_from_checkpoint, params, coll>>
    /\ cfg_unchanged /\ ema_unchanged /\ files_unchanged /\ loop_unchanged

\* lines 853-854: ema_model.restore(unet.parameters())
SnapshotRestore(w) ==
    /\ pc[w] = "snapshot_restore"
    /\ LET r == EmaRestore(temp_stored_params[w], params[w])
       IN  /\ params' = [params EXCEPT ![w] = r.params]
           /\ temp_stored_params' = [temp_stored_params EXCEPT ![w] = r.temp_stored_params]
    /\ pc' = [pc EXCEPT ![w] = "push_to_hub"]
    /\ UNCHANGED <<resume_from_checkpoint, coll, shadow_params, optimization_step>>
    /\ cfg_unchanged /\ files_unchanged /\ loop_unchanged

\* lines 856-857, then the next epoch
PushToHub(w) ==
    /\ pc[w] = "push_to_hub"
    /\ hub' = IF args.push_to_hub THEN hub \cup {epoch[w]} ELSE hub
    /\ NextEpoch(w)
    /\ UNCHANGED <<resume_from_checkpoint, params, coll, output_dir, save_path,
                   images, snapshot, test_samples>>
    /\ cfg_unchanged /\ ema_unchanged

\* line 859: accelerator.end_training()
EndTraining(w) ==
    /\ pc[w] = "end"
    /\ pc' = [pc EXCEPT ![w] = "done"]
    /\ UNCHANGED <<resume_from_checkpoint, params, coll>>
    /\ cfg_unchanged /\ ema_unchanged /\ files_unchanged /\ loop_unchanged

Next ==
    \/ \E w \in Workers : Resume(w)
    \/ \E w \in Workers : SkipBatch(w)
    \/ \E w \in Workers : MicroStep(w)
    \/ \E w \in Workers : OptimizerStep(w)
    \/ \E w \in Workers : SaveCheckpoint(w)
    \/ \E w \in Workers : Log(w)
    \/ \E w \in Workers : LogRaises(w)
    \/ \E w \in Workers : EndOfDataloader(w)
    \/ \E w \in Workers : Evaluate(w)
    \/ \E w \in Workers : AfterBarrier(w)
    \/ \E w \in Workers : SampleStore(w)
    \/ \E w \in Workers : SampleCopyTo(w)
    \/ \E w \in Workers : SamplePipeline(w)
    \/ \E w \in Workers : SamplePipelineRaises(w)
    \/ \E w \in Workers : SampleRestore(w)
    \/ \E w \in Workers : AddImages(w)
    \/ \E w \in Workers : AddImagesRaises(w)
    \/ \E w \in Workers : SnapshotStore(w)
    \/ \E w \in Workers : SnapshotCopyTo(w)
    \/ \E w \in Workers : SavePretrained(w)
    \/ \E w \in Workers : SavePretrainedRaises(w)
    \/ \E w \in Workers : SnapshotRestore(w)
    \/ \E w \in Workers : PushToHub(w)
    \/ \E w \in Workers : EndTraining(w)

Spec == Init /\ [][Next]_vars

SpecWorkers == InitWorkers /\ [][Next]_vars

\* ------------------------------------------------------------------ claims
StepsPerEpoch == NumUpdateStepsPerEpoch(len_train_dataloader,
                                        args.gradient_accumulation_steps)

\* worker w runs without a checkpoint: no request, or the fall-back of line 655
Fresh(w) == pc[w] # "start" /\ resume_from_checkpoint[w].kind = "none"

\* worker w loaded a checkpoint
Resumed(w) == resume_global_step[w] # None

\* batches the dataloader has yielded to worker w over all epochs
Consumed(w) == epoch[w] * len_train_dataloader + step[w]

\* C1: in an uninterrupted run, whenever global_step has just reached G (no
\* micro-step since the optimization step), the (first_epoch, resume_step) a
\* resume from G computes is a position inside an epoch and denotes exactly
\* the batches consumed so far.
C1_ResumePoint ==
    \A w \in Workers :
        (Fresh(w) /\ grads[w] = 0 /\ pc[w] # "allreduce") =>
            LET G == global_step[w]
                B == len_train_dataloader
                A == args.gradient_accumulation_steps
            IN  /\ ResumeStep(G, B, A) < B
                /\ FirstEpoch(G, B, A) * B + ResumeStep(G, B, A) = Consumed(w)

C1_Witness ==
    \E w \in Workers :
        /\ Fresh(w) /\ grads[w] = 0 /\ pc[w] = "save_state"
        /\ len_train_dataloader = 3 /\ args.gradient_accumulation_steps = 2
        /\ global_step[w] = 3 /\ epoch[w] = 1 /\ step[w] = 2

\* C2 as stated: on resume first_epoch = (G * accum_steps) // steps_per_epoch
\* and resume_step = (G * accum_steps) mod (steps_per_epoch * accum_steps).
C2_Original ==
    [][\A w \in Workers :
          (pc[w] = "start" /\ Resumed(w)') =>
              LET GA == global_step'[w] * args.gradient_accumulation_steps
              IN  /\ first_epoch'[w] = GA \div StepsPerEpoch
                  /\ resume_step'[w] =
                        GA % (StepsPerEpoch * args.gradient_accumulation_steps)]_vars

\* C2 amended: on resume first_epoch = G // steps_per_epoch and resume_step =
\* (G * accum_steps) mod (steps_per_epoch * accum_steps) = accum_steps *
\* (G mod steps_per_epoch), with G the suffix of the loaded checkpoint.
C2_Resume ==
    [][\A w \in Workers :
          (pc[w] = "start" /\ Resumed(w)') =>
              LET G == global_step'[w]
                  A == args.gradient_accumulation_steps
              IN  /\ G \in DOMAIN output_dir
                  /\ resume_global_step'[w] = G * A
                  /\ first_epoch'[w] = G \div StepsPerEpoch
                  /\ resume_step'[w] = (G * A) % (StepsPerEpoch * A)
                  /\ resume_step'[w] = A * (G % StepsPerEpoch)
                  /\ epoch'[w] = first_epoch'[w]]_vars

C2_Witness ==
    \E w \in Workers :
        /\ Resumed(w) /\ pc[w] = "train" /\ step[w] = 0
        /\ args.gradient_accumulation_steps = 2 /\ len_train_dataloader = 3
        /\ global_step[w] = 2 /\ first_epoch[w] = 1 /\ resume_step[w] = 0

\* the checkpoint a request names is not under the output directory
NotFound(req) ==
    \/ req.kind = "path" /\ req.n \notin DOMAIN output_dir
    \/ req.kind = "latest" /\ DOMAIN output_dir = {}

\* C3: a resume request whose checkpoint cannot be found falls back to the
\* Fresh state and enters the epoch loop; it never raises.
C3_Fallback ==
    [][\A w \in Workers :
          (pc[w] = "start" /\ pc'[w] # "start" /\ NotFound(resume_from_checkpoint[w])) =>
              /\ pc'[w] \in {"train", "end"}
              /\ resume_from_checkpoint'[w] = NoResume
              /\ global_step'[w] = 0 /\ first_epoch'[w] = 0 /\ epoch'[w] = 0]_vars

\* between store and restore of the sampling or of the snapshot section
SwapSection ==
    {"sample_copy_to", "sample_pipeline", "sample_restore",
     "snapshot_copy_to", "save_pretrained", "snapshot_restore"}

\* an exception left main(args)
Raised == {"raised_load_state", "raised_pipeline", "raised_save_pretrained",
           "raised_log", "raised_add_images"}

\* C4: no state outside the store .. restore section, reached normally or by
\* an error, has stored live weights that were not restored.
C4_RestoreOnEveryExit ==
    \A w \in Workers : pc[w] \notin SwapSection => temp_stored_params[w] = None

\* C5: copy_to runs only on stored weights, and while weights are stored and
\* not restored the worker is inside the section (or has aborted in it): no
\* training micro-step, optimization step, checkpoint, barrier or end_training
\* runs on them, and outside the section the live weights are the trained ones.
C5_SwapOrdering ==
    \A w \in Workers :
        /\ pc[w] \in {"sample_copy_to", "snapshot_copy_to"} =>
              temp_stored_params[w] # None
        /\ temp_stored_params[w] # None =>
              pc[w] \in SwapSection \cup {"raised_pipeline", "raised_save_pretrained"}
        /\ pc[w] \notin SwapSection \cup Raised => params[w] = global_step[w]

C5_Witness ==
    \E w \in Workers :
        /\ args.use_ema /\ pc[w] = "allreduce" /\ epoch[w] = 1
        /\ 0 \in images /\ snapshot # None /\ snapshot # params[w]
        /\ shadow_params[w] # params[w]

\* C6: once a checkpoint has been saved, at most checkpoints_total_limit
\* checkpoint directories exist, the one just saved among them.
C6_Retention ==
    save_path # None =>
        /\ Cardinality(DOMAIN output_dir) <= args.checkpoints_total_limit
        /\ save_path \in DOMAIN output_dir

\* the main process is writing: checkpoint, samples, snapshot or publication
Writing ==
    {"save_state", "sample_copy_to", "sample_pipeline", "sample_restore", "add_images",
     "snapshot_copy_to", "save_pretrained", "snapshot_restore", "push_to_hub"}

\* an action changed what is on disk, in the tracker or on the hub
Wrote ==
    \/ output_dir' # output_dir \/ save_path' # save_path
    \/ images' # images \/ snapshot' # snapshot \/ hub' # hub
    \/ test_samples' # test_samples

\* C7 as stated: only the main worker writes, and while it writes no other
\* worker executes a training micro-step.
C7_Original ==
    [][/\ Wrote => pc[0] \in Writing /\ pc'[0] # pc[0]
       /\ pc[0] \in Writing =>
             \A v \in Workers \ {0} : grads'[v] <= grads[v]]_vars

\* C7 amended: only the main worker writes, and it starts a write only after
\* every worker has entered the collective before it (the gradient reduction
\* of that optimization step, the barrier at the end of the epoch).
C7_SingleWriter ==
    [][/\ Wrote => pc[0] \in Writing /\ pc'[0] # pc[0]
       /\ \A w \in Workers \ {0} : pc[w] \notin Writing
       /\ pc[0] \in Writing => \A v \in Workers : coll[v] >= coll[0]]_vars

C7_Witness ==
    /\ num_processes >= 2
    /\ pc[0] = "save_pretrained" /\ epoch[0] = 0 /\ images = {0}
    /\ epoch[1] = 1 /\ grads[1] = 1 /\ \A v \in Workers : coll[v] >= coll[0]

\* C8 as stated: global_step changes only by +1, exactly when accum_steps
\* micro-steps have been consumed since the last optimization step.
C8_Original ==
    [][\A w \in Workers : pc[w] # "start" =>
          /\ global_step'[w] # global_step[w] =>
                /\ global_step'[w] = global_step[w] + 1
                /\ grads[w] = args.gradient_accumulation_steps
          /\ grads'[w] = args.gradient_accumulation_steps => pc'[w] = "allreduce"]_vars

\* C8 amended: global_step changes only by +1 and only in the optimization
\* step, which follows accum_steps accumulated micro-steps or the last batch
\* of the epoch with 1 .. accum_steps of them; after the last batch no
\* gradient is left to apply.
C8_Cadence ==
    [][\A w \in Workers : pc[w] # "start" =>
          /\ global_step'[w] # global_step[w] =>
                /\ global_step'[w] = global_step[w] + 1
                /\ pc[w] = "allreduce"
                /\ \/ grads[w] = args.gradient_accumulation_steps
                   \/ /\ step[w] = len_train_dataloader
                      /\ grads[w] \in 1 .. args.gradient_accumulation_steps
          /\ grads'[w] = args.gradient_accumulation_steps => pc'[w] = "allreduce"
          /\ (step'[w] = len_train_dataloader /\ grads'[w] # 0) => pc'[w] = "allreduce"
          /\ pc'[w] = "allreduce" => grads'[w] >= 1]_vars

C8_Witness ==
    \E w \in Workers :
        /\ len_train_dataloader = 3 /\ args.gradient_accumulation_steps = 2
        /\ pc[w] = "train" /\ step[w] = 3 /\ grads[w] = 0 /\ global_step[w] = 2
        /\ Fresh(w)

\* C9: with EMA enabled, in a fresh run the EMA tracker has been stepped
\* exactly global_step times.
C9_EmaPerOptimizerStep ==
    \A w \in Workers :
        (args.use_ema /\ Fresh(w)) => optimization_step[w] = global_step[w]

C9_Witness ==
    \E w \in Workers :
        /\ args.use_ema /\ Fresh(w) /\ args.gradient_accumulation_steps = 2
        /\ pc[w] = "train" /\ grads[w] = 1 /\ global_step[w] = 2
        /\ optimization_step[w] = 2

\* the step count worker w resumed from, 0 for a run that loaded none
ResumedFrom(w) ==
    IF Resumed(w) THEN resume_global_step[w] \div args.gradient_accumulation_steps ELSE 0

\* C10: the main process saves a checkpoint exactly when its global_step has
\* just become a positive multiple of checkpointing_steps, as
\* checkpoint-<global_step>; the identifiers saved increase strictly and all
\* exceed the step count the run resumed from.
C10_CheckpointCadence ==
    [][/\ (/\ pc[0] # "start" /\ global_step'[0] # global_step[0]
           /\ global_step'[0] % args.checkpointing_steps = 0)
          <=> (pc'[0] = "save_state" /\ pc[0] # "save_state")
       /\ (pc[0] = "save_state" /\ pc'[0] # "save_state") =>
             /\ save_path' = global_step[0]
             /\ save_path' \in DOMAIN output_dir'
             /\ output_dir'[save_path'].unet = params[0]
       /\ (save_path' # save_path \/ output_dir' # output_dir) =>
             /\ pc[0] = "save_state"
             /\ save_path' > 0 /\ save_path' % args.checkpointing_steps = 0
             /\ save_path' > save_path
             /\ save_path' > ResumedFrom(0)]_vars

C10_Witness ==
    /\ Resumed(0) /\ ResumedFrom(0) = 1 /\ args.checkpointing_steps = 2
    /\ save_path = 4 /\ {2, 4} \subseteq DOMAIN output_dir /\ pc[0] = "train"

\* C11: a run that went through its last epoch and terminated has left the
\* checkpoint of its final global_step, holding the final weights and EMA
\* state, whether or not that step count is a multiple of checkpointing_steps.
C11_CheckpointAtRunEnd ==
    (pc[0] = "done" /\ first_epoch[0] < args.num_epochs) =>
        /\ global_step[0] \in DOMAIN output_dir
        /\ output_dir[global_step[0]] =
              CheckpointContent(params[0], shadow_params[0], optimization_step[0])

\* C12: when the main worker leaves epoch e, sample images of e were generated
\* iff e mod save_images_epochs = 0 or e is the final epoch, and the snapshot
\* was written in e iff e mod save_model_epochs = 0 or e is the final epoch;
\* the snapshot holds the EMA shadow when EMA is enabled (the live weights
\* otherwise) and the live weights afterwards are the trained ones; a run that
\* went through its final epoch ends with both produced.
C12_EpochCadence ==
    [][LET e == epoch[0]
           last == args.num_epochs - 1
           imagesDue == e % args.save_images_epochs = 0 \/ e = last
           modelDue == e % args.save_model_epochs = 0 \/ e = last
           deployed == IF args.use_ema THEN shadow_params[0] ELSE global_step[0]
       IN  /\ images' # images =>
                 images' = images \cup {e} /\ imagesDue /\ pc[0] = "sample_pipeline"
           /\ snapshot' # snapshot => modelDue /\ pc[0] = "save_pretrained"
           /\ (pc[0] = "save_pretrained" /\ pc'[0] \notin Raised \cup {"save_pretrained"}) =>
                 snapshot' = deployed
           /\ (pc[0] = "snapshot_restore" /\ pc'[0] # pc[0]) =>
                 params'[0] = temp_stored_params[0] /\ params'[0] = global_step[0]
           /\ (pc[0] # "start" /\ epoch'[0] # e) =>
                 /\ e \in images <=> imagesDue
                 /\ IF modelDue
                    THEN /\ pc[0] = "push_to_hub" /\ snapshot = deployed
                         /\ params'[0] = global_step[0]
                    ELSE pc[0] = "snapshot"
           /\ (pc[0] = "end" /\ pc'[0] = "done" /\ first_epoch[0] < args.num_epochs) =>
                 last \in images /\ snapshot = deployed /\ params[0] = global_step[0]
      ]_vars

C12_Witness ==
    /\ pc[0] = "done" /\ args.use_ema /\ args.num_epochs = 3
    /\ args.save_images_epochs = 2 /\ args.save_model_epochs = 2
    /\ images = {0, 2} /\ snapshot = shadow_params[0] /\ snapshot # params[0]
    /\ params[0] = global_step[0]

\* the live weights after store; copy_to; restore on live weights p, shadow s
RoundTrip(p, s) == EmaRestore(EmaStore(p), EmaCopyTo(s)).params

\* C13: store; copy_to; restore gives back the live weights it started from,
\* for every live and shadow value and also twice in a row; in a run, store
\* keeps the live weights of this step count, nothing in the section changes
\* the stored weights or the shadow, copy_to makes the shadow live, and
\* restore makes the stored weights live again and drops them.
C13_RoundTrip ==
    [][/\ \A p, s \in 0 .. MaxWeight :
             /\ RoundTrip(p, s) = p
             /\ RoundTrip(RoundTrip(p, s), s) = p
             /\ EmaCopyTo(s) = s
       /\ \A w \in Workers :
             /\ pc[w] \in {"sample", "snapshot"} => params[w] = global_step[w]
             /\ (pc[w] \in {"sample", "snapshot"}
                 /\ pc'[w] \in {"sample_copy_to", "snapshot_copy_to"}) =>
                   /\ temp_stored_params'[w] = params[w]
                   /\ params'[w] = params[w]
             /\ (pc[w] \in SwapSection /\ args.use_ema) =>
                   /\ shadow_params'[w] = shadow_params[w]
                   /\ global_step'[w] = global_step[w]
                   /\ temp_stored_params[w] = global_step[w]
             /\ (pc[w] \in {"sample_copy_to", "snapshot_copy_to"} /\ pc'[w] # pc[w]) =>
                   /\ params'[w] = shadow_params[w]
                   /\ temp_stored_params'[w] = temp_stored_params[w]
             /\ (pc[w] \in {"sample_pipeline", "save_pretrained"} /\ args.use_ema) =>
                   /\ params'[w] = params[w]
                   /\ temp_stored_params'[w] = temp_stored_params[w]
             /\ (pc[w] \in {"sample_restore", "snapshot_restore"} /\ pc'[w] # pc[w]) =>
                   /\ params'[w] = global_step[w]
                   /\ temp_stored_params'[w] = None
      ]_vars

\* sampling and the snapshot of one epoch both went through the triple
C13_Witness ==
    \E w \in Workers :
        /\ args.use_ema /\ pc[w] = "push_to_hub" /\ epoch[w] \in images
        /\ epoch[w] \in test_samples
        /\ snapshot = shadow_params[w] /\ shadow_params[w] # global_step[w]
        /\ params[w] = global_step[w] /\ global_step[w] > 0
        /\ temp_stored_params[w] = None

\* C14: whatever a scalar log call (line 739) or an image log call (lines
\* 822-836) to the tracker does, failing included, the worker goes on with
\* the loop - the next batch, or the snapshot section of the epoch - with
\* global_step, the weights and the EMA state unchanged.
C14_TrackerNonFatal ==
    [][\A w \in Workers :
          (pc[w] \in {"log", "add_images"} /\ pc'[w] # pc[w]) =>
              /\ pc'[w] = IF pc[w] = "log" THEN "train" ELSE "snapshot"
              /\ global_step'[w] = global_step[w]
              /\ params'[w] = params[w]
              /\ shadow_params'[w] = shadow_params[w]
              /\ optimization_step'[w] = optimization_step[w]]_vars

\* worker v is in the same gradient reduction as worker w and has not left it
InSameReduction(v, w) == pc[v] = "allreduce" /\ coll[v] = coll[w]

\* C15: a worker is in the gradient reduction only at the end of a
\* synchronising micro-step with gradients to apply; when the reduction
\* completes for a worker, every worker still in it holds the same global_step
\* and EMA step count, and every worker that left it is exactly one
\* optimization step further; the global_step of two workers that started
\* never differs by more than one.
C15_LockStep ==
    \A w \in Workers :
        /\ pc[w] = "allreduce" =>
              /\ sync_gradients[w] /\ grads[w] >= 1
              /\ \/ grads[w] = args.gradient_accumulation_steps
                 \/ step[w] = len_train_dataloader
        /\ (pc[w] = "allreduce" /\ \A u \in Workers : coll[u] >= coll[w]) =>
              \A v \in Workers :
                  IF InSameReduction(v, w)
                  THEN /\ global_step[v] = global_step[w]
                       /\ optimization_step[v] = optimization_step[w]
                       /\ grads[v] = grads[w]
                  ELSE /\ global_step[v] = global_step[w] + 1
                       /\ args.use_ema => optimization_step[v] = optimization_step[w] + 1
        /\ \A v \in Workers :
              (pc[v] # "start" /\ pc[w] # "start") =>
                  /\ global_step[v] - global_step[w] <= 1
                  /\ coll[v] - coll[w] <= 1

C15_Witness ==
    /\ num_processes >= 2 /\ args.use_ema
    /\ pc[0] = "allreduce" /\ pc[1] = "log" /\ coll[1] = coll[0]
    /\ global_step[0] = 1 /\ global_step[1] = 2
    /\ optimization_step[0] = 1 /\ optimization_step[1] = 2

\* C16: a batch the dataloader yields is skipped iff the run loaded a
\* checkpoint, the epoch is the first resumed one and the batch index is below
\* resume_step; a skipped batch changes nothing but the batch index, every
\* other batch is trained on; resume_step is a whole number of accumulation
\* windows inside the epoch, so batch resume_step exists and is the first one
\* trained on.  A run that fell back to Fresh has loaded no checkpoint.
C16_SkipOnResume ==
    [][\A w \in Workers :
          /\ (pc[w] = "train" /\ step'[w] = step[w] + 1) =>
                IF Resumed(w) /\ epoch[w] = first_epoch[w] /\ step[w] < resume_step[w]
                THEN /\ global_step'[w] = global_step[w] /\ params'[w] = params[w]
                     /\ grads'[w] = grads[w] /\ acc_step'[w] = acc_step[w]
                     /\ shadow_params'[w] = shadow_params[w]
                     /\ optimization_step'[w] = optimization_step[w]
                     /\ coll'[w] = coll[w] /\ pc'[w] = "train"
                ELSE /\ grads'[w] = grads[w] + 1
                     /\ pc'[w] \in {"allreduce", "log"}
          /\ Resumed(w) =>
                /\ resume_step[w] \in 0 .. (len_train_dataloader - 1)
                /\ resume_step[w] % args.gradient_accumulation_steps = 0
                /\ resume_from_checkpoint[w].kind # "none"
          /\ (pc[w] # "start" /\ resume_from_checkpoint[w].kind = "none") => ~Resumed(w)
      ]_vars

\* two batches skipped, batch 2 trained on, in the resumed epoch
C16_Witness ==
    \E w \in Workers :
        /\ Resumed(w) /\ epoch[w] = first_epoch[w] /\ resume_step[w] = 2
        /\ step[w] = 3 /\ grads[w] = 1 /\ pc[w] = "allreduce"
        /\ global_step[w] = ResumedFrom(w)

\* C17: a resume under "latest" loads, among the checkpoint-<n> directories
\* present (whenever there is one), the one with the numerically largest n,
\* and global_step becomes that n; a resume from an explicit path takes
\* global_step from the number that ends the path.
C17_LatestIsNumericMax ==
    [][\A w \in Workers :
          LET req == resume_from_checkpoint[w]
              ids == DOMAIN output_dir
              G == global_step'[w]
          IN  (pc[w] = "start" /\ pc'[w] # "start") =>
                  /\ (req.kind = "latest" /\ ids # {}) =>
                        /\ Resumed(w)'
                        /\ G \in ids /\ \A n \in ids : n <= G
                        /\ params'[w] = output_dir[G].unet
                  /\ (req.kind = "path" /\ Resumed(w)') => G = req.n
                  /\ Resumed(w)' => resume_global_step'[w] =
                        G * args.gradient_accumulation_steps]_vars

\* checkpoint-9 and checkpoint-10 were present; the names sort the other way
C17_Witness ==
    \E w \in Workers :
        /\ resume_from_checkpoint[w].kind = "latest" /\ Resumed(w)
        /\ {9, 10} \subseteq DOMAIN output_dir
        /\ ~StrLeq(DirName(9), DirName(10)) /\ StrLeq(DirName(10), DirName(9))
        /\ global_step[w] = 10 /\ params[w] = 10

\* C18: a fresh run that has left the epoch loop has made
\* num_epochs * ceil(batches_per_epoch / accum_steps) optimization steps, and
\* inside the loop it has made ceil(batches_per_epoch / accum_steps) per
\* epoch gone through.
C18_StepCount ==
    \A w \in Workers :
        LET B == len_train_dataloader
            A == args.gradient_accumulation_steps
            perEpoch == (B + A - 1) \div A
        IN  /\ (Fresh(w) /\ pc[w] \in {"end", "done"}) =>
                  /\ epoch[w] = args.num_epochs
                  /\ global_step[w] = args.num_epochs * perEpoch
            /\ (Fresh(w) /\ pc[w] = "train" /\ step[w] = 0) =>
                  global_step[w] = epoch[w] * perEpoch

C18_Witness ==
    \E w \in Workers :
        /\ Fresh(w) /\ pc[w] = "done" /\ args.num_epochs = 3
        /\ len_train_dataloader = 3 /\ args.gradient_accumulation_steps = 2
        /\ global_step[w] = 6

\* C19: a worker that resumed with first_epoch >= num_epochs goes from the
\* resume straight to end_training: no batch is fetched, no micro-step or
\* optimization step runs, and no checkpoint, sample image, tracker image or
\* snapshot is written.
C19_ResumePastEnd ==
    \A w \in Workers :
        (Resumed(w) /\ first_epoch[w] >= args.num_epochs) =>
            /\ pc[w] \in {"end", "done"}
            /\ epoch[w] = first_epoch[w] /\ step[w] = 0 /\ grads[w] = 0
            /\ global_step[w] = ResumedFrom(w) /\ params[w] = global_step[w]
            /\ save_path = None /\ images = {} /\ test_samples = {}
            /\ snapshot = None /\ hub = {}

\* resumed from the checkpoint of the last optimization step of the run
C19_Witness ==
    \E w \in Workers :
        /\ Resumed(w) /\ pc[w] = "done" /\ args.num_epochs = 2
        /\ global_step[w] = args.num_epochs * StepsPerEpoch
        /\ first_epoch[w] = args.num_epochs
        /\ snapshot = None /\ images = {}

====
